---- MODULE Spec2Model ----
(***************************************************************************)
(* Model of api/parse.py: the HTTP handler (do_POST, do_OPTIONS) and the   *)
(* rule-based constraint parser behind it (_parse_constraint and the       *)
(* methods it calls).                                                      *)
(*                                                                         *)
(* Representation of Python values:                                        *)
(*   - a str that is scanned or extracted from is a sequence of            *)
(*     one-character strings; a str literal that is only stored (a dict    *)
(*     key, a type name, an operator name) is a TLA+ string;               *)
(*   - a dict is the sequence of its <<key, value>> pairs in insertion     *)
(*     order, the empty dict is << >>;                                     *)
(*   - the values of the category dicts, which _calculate_confidence       *)
(*     inspects by dynamic type, are tagged: PyNone, PyInt, PyStr, PyList, *)
(*     PyBool, PyFloat;                                                    *)
(*   - a float is the integer number of hundredths (0.3 is 30).  Every     *)
(*     float the program computes is a sum of at most four terms from      *)
(*     {0.1, 0.2, 0.3}; its IEEE-754 value differs from the exact sum by   *)
(*     at most one ulp and never crosses 0, 0.5, 0.7, 0.9 or 1.0.          *)
(***************************************************************************)
EXTENDS Integers, Sequences, FiniteSets, TLC

VARIABLES
    text,           \* direct calls: the text argument
    scored,         \* direct calls: the parsed_result argument of _calculate_confidence
    call,           \* direct calls: the method called and what it returned
    request,        \* handler: the request of this connection
    handled,        \* handler: the request has been dispatched
    responses,      \* handler: what was written to the client, in order
    parseCalls      \* handler: how often do_POST called _parse_constraint

vars == <<text, scored, call, request, handled, responses, parseCalls>>

---------------------------------------------------------------------------
(* Characters and str methods.                                             *)

DigitSeq == <<"0","1","2","3","4","5","6","7","8","9">>
UpperSeq == <<"A","B","C","D","E","F","G","H","I","J","K","L","M",
              "N","O","P","Q","R","S","T","U","V","W","X","Y","Z">>
LowerSeq == <<"a","b","c","d","e","f","g","h","i","j","k","l","m",
              "n","o","p","q","r","s","t","u","v","w","x","y","z">>

Range(s) == {s[i] : i \in 1..Len(s)}

Digit == Range(DigitSeq)
Upper == Range(UpperSeq)
Letter == Upper \cup Range(LowerSeq)
\* \w of re (on the ASCII characters of the model)
WordChar == Letter \cup Digit \cup {"_"}
\* \s of re, and what str.strip() removes
Space == {" ", "\t", "\n", "\r"}

LowerChar(c) ==
    IF c \in Upper THEN LowerSeq[CHOOSE i \in 1..Len(UpperSeq) : UpperSeq[i] = c] ELSE c

UpperChar(c) ==
    IF c \in Range(LowerSeq)
    THEN UpperSeq[CHOOSE i \in 1..Len(LowerSeq) : LowerSeq[i] = c] ELSE c

\* str.lower()
RECURSIVE lower(_)
lower(s) == IF s = <<>> THEN <<>> ELSE <<LowerChar(s[1])>> \o lower(Tail(s))

\* str.capitalize(): first character upper-cased, the rest lower-cased
capitalize(s) == IF s = <<>> THEN <<>> ELSE <<UpperChar(s[1])>> \o lower(Tail(s))

\* str.rstrip(chars)
RECURSIVE rstrip(_, _)
rstrip(s, chars) ==
    IF s # <<>> /\ s[Len(s)] \in chars THEN rstrip(SubSeq(s, 1, Len(s) - 1), chars) ELSE s

RECURSIVE lstrip(_, _)
lstrip(s, chars) ==
    IF s # <<>> /\ s[1] \in chars THEN lstrip(SubSeq(s, 2, Len(s)), chars) ELSE s

\* the text as posted
Untrimmed(s) == s

\* str.strip()
strip(s) == lstrip(rstrip(s, Space), Space)

\* the literal lit occurs in s at index i
LitAt(s, i, lit) ==
    /\ i >= 1
    /\ i + Len(lit) - 1 <= Len(s)
    /\ \A j \in 1..Len(lit) : s[i + j - 1] = lit[j]

\* Python's  sub in s
Contains(sub, s) ==
    \/ sub = <<>>
    \/ \E i \in 1..(Len(s) - Len(sub) + 1) : s[i] = sub[1] /\ LitAt(s, i, sub)

\* int(digits)
RECURSIVE int(_)
int(ds) ==
    IF ds = <<>> THEN 0
    ELSE 10 * int(SubSeq(ds, 1, Len(ds) - 1))
         + (CHOOSE d \in 0..9 : DigitSeq[d + 1] = ds[Len(ds)])

\* s1 + " " + s2 + ...
RECURSIVE Join(_)
Join(parts) ==
    IF parts = <<>> THEN <<>>
    ELSE IF Len(parts) = 1 THEN parts[1]
    ELSE parts[1] \o <<" ">> \o Join(Tail(parts))

---------------------------------------------------------------------------
(* Tagged Python values and dicts.                                         *)

PyNone == <<"None">>
PyInt(n) == <<"int", n>>
PyStr(s) == <<"str", s>>
PyList(l) == <<"list", l>>
PyBool(b) == <<"bool", b>>
PyFloat(hundredths) == <<"float", hundredths>>

EmptyDict == <<>>

\* v is not None and v != []
IsNone(v) == v[1] = "None"
IsEmptyList(v) == v[1] = "list" /\ v[2] = <<>>

\* dict[key], for a key the dict has
Item(d, key) == d[CHOOSE i \in 1..Len(d) : d[i][1] = key][2]

\* max(d, key=d.get): the scan keeps the first key whose value is largest
RECURSIVE MaxScan(_, _, _)
MaxScan(d, i, best) ==
    IF i > Len(d) THEN d[best][1]
    ELSE IF d[i][2] > d[best][2] THEN MaxScan(d, i + 1, i)
    ELSE MaxScan(d, i + 1, best)

\* max(d.values())
RECURSIVE MaxValue(_, _)
MaxValue(d, i) ==
    IF i = Len(d) THEN d[i][2]
    ELSE LET rest == MaxValue(d, i + 1) IN IF d[i][2] >= rest THEN d[i][2] ELSE rest

---------------------------------------------------------------------------
(* _classify_constraint_type                                               *)

temporal_keywords ==
    << <<"m","o","n","d","a","y">>, <<"t","u","e","s","d","a","y">>, <<"w","e","d","n","e","s","d","a","y">>, <<"t","h","u","r","s","d","a","y">>, <<"f","r","i","d","a","y">>,
       <<"s","a","t","u","r","d","a","y">>, <<"s","u","n","d","a","y">>, <<"t","i","m","e">>, <<"h","o","u","r">>, <<"a","m">>, <<"p","m">>,
       <<"m","o","r","n","i","n","g">>, <<"a","f","t","e","r","n","o","o","n">>, <<"e","v","e","n","i","n","g">>, <<"n","i","g","h","t">>, <<"b","e","f","o","r","e">>,
       <<"a","f","t","e","r">>, <<"d","u","r","i","n","g">>, <<"d","a","t","e">>, <<"w","e","e","k">>, <<"m","o","n","t","h">>, <<"d","a","y">> >>

capacity_keywords ==
    << <<"m","a","x","i","m","u","m">>, <<"m","i","n","i","m","u","m">>, <<"l","i","m","i","t">>, <<"c","a","p","a","c","i","t","y">>, <<"m","o","r","e"," ","t","h","a","n">>,
       <<"l","e","s","s"," ","t","h","a","n">>, <<"n","o"," ","m","o","r","e">>, <<"a","t"," ","l","e","a","s","t">>, <<"p","e","r"," ","d","a","y">>, <<"p","e","r"," ","w","e","e","k">>,
       <<"g","a","m","e","s">>, <<"m","a","t","c","h","e","s">> >>

location_keywords ==
    << <<"f","i","e","l","d">>, <<"v","e","n","u","e">>, <<"l","o","c","a","t","i","o","n">>, <<"h","o","m","e">>, <<"a","w","a","y">>, <<"c","o","u","r","t">>,
       <<"s","t","a","d","i","u","m">>, <<"g","r","o","u","n","d">>, <<"f","a","c","i","l","i","t","y">>, <<"s","i","t","e">>, <<"p","l","a","c","e">> >>

rest_keywords ==
    << <<"r","e","s","t">>, <<"b","r","e","a","k">>, <<"b","e","t","w","e","e","n">>, <<"g","a","p">>, <<"i","n","t","e","r","v","a","l">>, <<"r","e","c","o","v","e","r","y">>,
       <<"d","a","y","s"," ","b","e","t","w","e","e","n">>, <<"h","o","u","r","s"," ","b","e","t","w","e","e","n">>, <<"t","i","m","e"," ","b","e","t","w","e","e","n">> >>

preference_keywords ==
    << <<"p","r","e","f","e","r">>, <<"l","i","k","e">>, <<"w","a","n","t">>, <<"w","i","s","h">>, <<"w","o","u","l","d"," ","l","i","k","e">>, <<"i","d","e","a","l","l","y">>,
       <<"b","e","t","t","e","r">>, <<"f","a","v","o","r">>, <<"r","a","t","h","e","r">> >>

\* sum(1 for keyword in keywords if keyword in text)
KeywordCount(keywords, t) ==
    Cardinality({i \in 1..Len(keywords) : Contains(keywords[i], t)})

scores(t) ==
    << <<"temporal", KeywordCount(temporal_keywords, t)>>,
       <<"capacity", KeywordCount(capacity_keywords, t)>>,
       <<"location", KeywordCount(location_keywords, t)>>,
       <<"rest", KeywordCount(rest_keywords, t)>>,
       <<"preference", KeywordCount(preference_keywords, t)>> >>

ClassifyNoTieOrder(t) ==
    LET sc == scores(t)
        m == MaxValue(sc, 1)
    IN  IF m = 0 THEN "unknown"
        ELSE sc[CHOOSE i \in 1..Len(sc) : sc[i][2] = m /\ \A j \in (i + 1)..Len(sc) : sc[j][2] < m][1]

_classify_constraint_type(t) ==
    LET sc == scores(t)
    IN  IF MaxValue(sc, 1) = 0 THEN "unknown" ELSE MaxScan(sc, 2, 1)

---------------------------------------------------------------------------
(* The regular expressions of the program.  A match operator gives, for a  *)
(* start index i, the index of the last character of the match that re     *)
(* finds there (alternatives in order, greedy repetition, backtracking),   *)
(* or 0 when the pattern does not match at i.  No pattern matches the      *)
(* empty string.                                                           *)

CharIn(s, i, S) == i >= 1 /\ i <= Len(s) /\ s[i] \in S

\* \b between index i - 1 and index i
Boundary(s, i) == CharIn(s, i - 1, WordChar) # CharIn(s, i, WordChar)

\* last index of the longest run of characters of S that starts at i
\* (i - 1 when s[i] is not in S): a greedy S* or S+
RECURSIVE RunEnd(_, _, _)
RunEnd(s, i, S) == IF CharIn(s, i, S) THEN RunEnd(s, i + 1, S) ELSE i - 1

\* LitAt under re.IGNORECASE, for a lower-case literal
LitAtI(s, i, lit) ==
    /\ i >= 1
    /\ i + Len(lit) - 1 <= Len(s)
    /\ \A j \in 1..Len(lit) : LowerChar(s[i + j - 1]) = lit[j]

\* the first alternative that matches
FirstMatch(ends) ==
    IF \E k \in 1..Len(ends) : ends[k] > 0
    THEN ends[CHOOSE k \in 1..Len(ends) : ends[k] > 0 /\ \A j \in 1..(k - 1) : ends[j] = 0]
    ELSE 0

\* re.finditer, given for each start index where the pattern's match ends:
\* the spans <<first, last>> of the non-overlapping matches from pos on
RECURSIVE finditer(_, _)
finditer(ends, pos) ==
    IF pos > Len(ends) THEN <<>>
    ELSE LET e == ends[pos]
         IN  IF e > 0 THEN << <<pos, e>> >> \o finditer(ends, e + 1)
             ELSE finditer(ends, pos + 1)

\* re.search: the span of the leftmost match, << >> when there is none
RECURSIVE search(_, _)
search(ends, pos) ==
    IF pos > Len(ends) THEN <<>>
    ELSE LET e == ends[pos]
         IN  IF e > 0 THEN <<pos, e>> ELSE search(ends, pos + 1)

\* \b(Team\s+[A-Z]\w*|[A-Z]\w+\s+Team|[A-Z]\w+s)\b
team_pattern(s, i) ==
    IF ~Boundary(s, i) THEN 0
    ELSE LET sp1 == RunEnd(s, i + 4, Space)
             alt1 == IF /\ LitAt(s, i, <<"T","e","a","m">>)
                        /\ sp1 >= i + 4
                        /\ CharIn(s, sp1 + 1, Upper)
                     THEN RunEnd(s, sp1 + 2, WordChar) ELSE 0
             w == RunEnd(s, i + 1, WordChar)
             sp2 == RunEnd(s, w + 1, Space)
             alt2 == IF /\ CharIn(s, i, Upper)
                        /\ w >= i + 1
                        /\ sp2 >= w + 1
                        /\ LitAt(s, sp2 + 1, <<"T","e","a","m">>)
                        /\ Boundary(s, sp2 + 5)
                     THEN sp2 + 4 ELSE 0
             alt3 == IF CharIn(s, i, Upper) /\ w >= i + 2 /\ s[w] = "s" THEN w ELSE 0
         IN  FirstMatch(<<alt1, alt2, alt3>>)

DayNames ==
    << <<"m","o","n","d","a","y">>, <<"t","u","e","s","d","a","y">>, <<"w","e","d","n","e","s","d","a","y">>, <<"t","h","u","r","s","d","a","y">>, <<"f","r","i","d","a","y">>,
       <<"s","a","t","u","r","d","a","y">>, <<"s","u","n","d","a","y">> >>

\* \b(Monday|...|Sunday|Mondays|...|Sundays)\b with re.IGNORECASE
days_pattern(s, i) ==
    IF ~Boundary(s, i) THEN 0
    ELSE LET singular(d) ==
                 IF LitAtI(s, i, d) /\ Boundary(s, i + Len(d)) THEN i + Len(d) - 1 ELSE 0
             plural(d) ==
                 IF LitAtI(s, i, d \o <<"s">>) /\ Boundary(s, i + Len(d) + 1)
                 THEN i + Len(d) ELSE 0
         IN  FirstMatch([k \in 1..14 |->
                 IF k <= 7 THEN singular(DayNames[k]) ELSE plural(DayNames[k - 7])])

\* (?:AM|PM|am|pm) at index i
AmPmAt(s, i, forms) == \E m \in forms : LitAt(s, i, m)

MeridiemAnyCase == { <<"A","M">>, <<"P","M">>, <<"a","m">>, <<"p","m">> }
MeridiemLower == { <<"a","m">>, <<"p","m">> }

\* \d{1,2}:\d{2} at i: the index of the last minute digit, or 0
ClockEnd(s, i) ==
    LET colon == IF CharIn(s, i + 1, Digit) THEN i + 2 ELSE i + 1
    IN  IF /\ CharIn(s, i, Digit)
           /\ CharIn(s, colon, {":"})
           /\ CharIn(s, colon + 1, Digit)
           /\ CharIn(s, colon + 2, Digit)
        THEN colon + 2 ELSE 0

\* \d{1,2}\s*(?:am|pm) at i: the index of the m, or 0
HourMeridiemEnd(s, i, forms) ==
    LET d == IF CharIn(s, i + 1, Digit) THEN i + 1 ELSE i
        sp == RunEnd(s, d + 1, Space)
    IN  IF CharIn(s, i, Digit) /\ AmPmAt(s, sp + 1, forms) THEN sp + 2 ELSE 0

\* \b(\d{1,2}:\d{2}\s*(?:AM|PM|am|pm)?|\d{1,2}\s*(?:AM|PM|am|pm))\b
\* In the first alternative \s* gives its whitespace back when neither a
\* meridiem nor a word boundary follows it.
time_pattern(s, i) ==
    IF ~Boundary(s, i) THEN 0
    ELSE LET min == ClockEnd(s, i)
             sp == RunEnd(s, min + 1, Space)
             alt1 == IF min = 0 THEN 0
                     ELSE IF AmPmAt(s, sp + 1, MeridiemAnyCase) /\ Boundary(s, sp + 3)
                          THEN sp + 2
                     ELSE IF Boundary(s, sp + 1) THEN sp
                     ELSE IF Boundary(s, min + 1) THEN min
                     ELSE 0
             hm == HourMeridiemEnd(s, i, MeridiemAnyCase)
             alt2 == IF hm > 0 /\ Boundary(s, hm + 1) THEN hm ELSE 0
         IN  FirstMatch(<<alt1, alt2>>)

\* \b(\d+)\b
number_pattern(s, i) ==
    LET e == RunEnd(s, i, Digit)
    IN  IF Boundary(s, i) /\ e >= i /\ Boundary(s, e + 1) THEN e ELSE 0

\* \b(Field\s+\d+|Court\s+\d+|Stadium|Arena|Gym|Gymnasium)\b with re.IGNORECASE
venue_pattern(s, i) ==
    IF ~Boundary(s, i) THEN 0
    ELSE LET numbered(lit) ==
                 LET sp == RunEnd(s, i + Len(lit), Space)
                     e == RunEnd(s, sp + 1, Digit)
                 IN  IF /\ LitAtI(s, i, lit)
                        /\ sp >= i + Len(lit)
                        /\ e >= sp + 1
                        /\ Boundary(s, e + 1)
                     THEN e ELSE 0
             word(lit) ==
                 IF LitAtI(s, i, lit) /\ Boundary(s, i + Len(lit))
                 THEN i + Len(lit) - 1 ELSE 0
         IN  FirstMatch(<< numbered(<<"f","i","e","l","d">>), numbered(<<"c","o","u","r","t">>), word(<<"s","t","a","d","i","u","m">>),
                           word(<<"a","r","e","n","a">>), word(<<"g","y","m">>), word(<<"g","y","m","n","a","s","i","u","m">>) >>)

---------------------------------------------------------------------------
(* _extract_entities                                                       *)

group(s, span) == SubSeq(s, span[1], span[2])

\* the "value" of an entity of the type, from match.group()
EntityValue(type, m) ==
    CASE type = "day_of_week" -> capitalize(rstrip(m, {"s"}))
      [] type = "number" -> int(m)
      [] OTHER -> m

\* for match in re.finditer(pattern, text): entities.append({...})
EntitiesOf(spans, s, type, confidence) ==
    [k \in 1..Len(spans) |->
        [type |-> type, value |-> EntityValue(type, group(s, spans[k])),
         confidence |-> confidence]]

_extract_entities(t) ==
    LET at == 1..Len(t)
    IN  EntitiesOf(finditer([i \in at |-> team_pattern(t, i)], 1), t, "team", 80)
        \o EntitiesOf(finditer([i \in at |-> days_pattern(t, i)], 1), t, "day_of_week", 95)
        \o EntitiesOf(finditer([i \in at |-> time_pattern(t, i)], 1), t, "time", 90)
        \o EntitiesOf(finditer([i \in at |-> number_pattern(t, i)], 1), t, "number", 85)
        \o EntitiesOf(finditer([i \in at |-> venue_pattern(t, i)], 1), t, "venue", 90)

---------------------------------------------------------------------------
(* The category parsers.                                                   *)

\* None, or the str / int a match gave
Optional(found, v) == IF found THEN v ELSE PyNone

\* (\d{1,2}:\d{2}\s*(?:am|pm)?|\d{1,2}\s*(?:am|pm)) at i, with no \b
TimeGroupEnd(s, i) ==
    LET min == ClockEnd(s, i)
        sp == RunEnd(s, min + 1, Space)
        alt1 == IF min = 0 THEN 0
                ELSE IF AmPmAt(s, sp + 1, MeridiemLower) THEN sp + 2
                ELSE sp
        alt2 == HourMeridiemEnd(s, i, MeridiemLower)
    IN  FirstMatch(<<alt1, alt2>>)

\* re.search(word + r'\s+(<time>)', s): group(1), or << >> when no match
TimeAfterWord(word, s) ==
    LET Match(i) ==
            LET sp == RunEnd(s, i + Len(word), Space)
            IN  IF LitAt(s, i, word) /\ sp >= i + Len(word)
                THEN TimeGroupEnd(s, sp + 1) ELSE 0
        span == search([i \in 1..Len(s) |-> Match(i)], 1)
    IN  IF span = <<>> THEN <<>>
        ELSE SubSeq(s, RunEnd(s, span[1] + Len(word), Space) + 1, span[2])

_parse_temporal_constraint(t) ==
    LET found == [k \in 1..Len(DayNames) |->
                     Contains(DayNames[k], t) \/ Contains(DayNames[k] \o <<"s">>, t)]
        days == SelectSeq([k \in 1..Len(DayNames) |-> k], LAMBDA k : found[k])
        before == IF Contains(<<"b","e","f","o","r","e">>, t) THEN TimeAfterWord(<<"b","e","f","o","r","e">>, t) ELSE <<>>
        after == IF Contains(<<"a","f","t","e","r">>, t) THEN TimeAfterWord(<<"a","f","t","e","r">>, t) ELSE <<>>
    IN  << <<"days_of_week", PyList([k \in 1..Len(days) |-> capitalize(DayNames[days[k]])])>>,
           <<"excluded_dates", PyList(<<>>)>>,
           <<"time_ranges", PyList(<<>>)>>,
           <<"before_time", Optional(before # <<>>, PyStr(before))>>,
           <<"after_time", Optional(after # <<>>, PyStr(after))>> >>

\* re.search(prefix + r'(\d+)', s): the span of group(1), or << >>
NumberAfter(prefix, s) ==
    LET Match(i) ==
            IF LitAt(s, i, prefix) /\ CharIn(s, i + Len(prefix), Digit)
            THEN RunEnd(s, i + Len(prefix), Digit) ELSE 0
        span == search([i \in 1..Len(s) |-> Match(i)], 1)
    IN  IF span = <<>> THEN <<>> ELSE <<span[1] + Len(prefix), span[2]>>

\* re.search(r'(\d+)' + suffix, s): the span of group(1), or << >>
NumberBefore(suffix, s) ==
    LET Match(i) ==
            LET e == RunEnd(s, i, Digit)
            IN  IF e >= i /\ LitAt(s, e + 1, suffix) THEN e + Len(suffix) ELSE 0
        span == search([i \in 1..Len(s) |-> Match(i)], 1)
    IN  IF span = <<>> THEN <<>> ELSE <<span[1], span[2] - Len(suffix)>>

RECURSIVE FirstPatternFrom(_, _)
FirstPatternFrom(spans, k) ==
    IF k > Len(spans) THEN <<>>
    ELSE IF spans[k] # <<>> THEN spans[k]
    ELSE FirstPatternFrom(spans, k + 1)

\* the match that starts first in the text, whichever pattern gave it
LeftmostPattern(spans) ==
    IF \A k \in 1..Len(spans) : spans[k] = <<>> THEN <<>>
    ELSE spans[CHOOSE k \in 1..Len(spans) :
                   /\ spans[k] # <<>>
                   /\ \A j \in 1..Len(spans) :
                          spans[j] # <<>> /\ j # k => spans[k][1] < spans[j][1]]

\* for pattern in patterns: match = re.search(pattern, text); if match: ...; break
FirstPattern(spans) == FirstPatternFrom(spans, 1)

max_patterns(t) ==
    << NumberAfter(<<"n","o"," ","m","o","r","e"," ","t","h","a","n"," ">>, t), NumberAfter(<<"m","a","x","i","m","u","m"," ">>, t),
       NumberAfter(<<"a","t"," ","m","o","s","t"," ">>, t), NumberBefore(<<" ","o","r"," ","f","e","w","e","r">>, t) >>

min_patterns(t) ==
    << NumberAfter(<<"a","t"," ","l","e","a","s","t"," ">>, t), NumberAfter(<<"m","i","n","i","m","u","m"," ">>, t),
       NumberBefore(<<" ","o","r"," ","m","o","r","e">>, t) >>

_parse_capacity_constraint(t) ==
    LET max == FirstPattern(max_patterns(t))
        min == FirstPattern(min_patterns(t))
    IN  << <<"max_count", Optional(max # <<>>, PyInt(int(group(t, max))))>>,
           <<"min_count", Optional(min # <<>>, PyInt(int(group(t, min))))>>,
           <<"per_period",
             IF Contains(<<"p","e","r"," ","d","a","y">>, t) THEN PyStr("day")
             ELSE IF Contains(<<"p","e","r"," ","w","e","e","k">>, t) THEN PyStr("week")
             ELSE IF Contains(<<"p","e","r"," ","h","o","u","r">>, t) THEN PyStr("hour")
             ELSE PyNone>>,
           <<"resource", PyNone>> >>

\* the stub returning the initial {}
LocationStubEmpty(t) == EmptyDict

LocationHomeFromText(t) ==
    << <<"required_venue", PyNone>>,
       <<"excluded_venues", PyList(<<>>)>>,
       <<"home_away_preference", Optional(Contains(<<"h","o","m","e">>, t), PyStr("home"))>> >>

_parse_location_constraint(t) ==
    << <<"required_venue", PyNone>>,
       <<"excluded_venues", PyList(<<>>)>>,
       <<"home_away_preference", PyNone>> >>

\* re.search(r'(\d+)\s+' + unit + r's?\s+between', s): the span of group(1)
NumberOfUnitBetween(unit, s) ==
    LET Match(i) ==
            LET e == RunEnd(s, i, Digit)
                sp1 == RunEnd(s, e + 1, Space)
                u == sp1 + Len(unit)
                us == IF CharIn(s, u + 1, {"s"}) THEN u + 1 ELSE u
                sp2 == RunEnd(s, us + 1, Space)
            IN  IF /\ e >= i
                   /\ sp1 >= e + 1
                   /\ LitAt(s, sp1 + 1, unit)
                   /\ sp2 >= us + 1
                   /\ LitAt(s, sp2 + 1, <<"b","e","t","w","e","e","n">>)
                THEN sp2 + 7 ELSE 0
        span == search([i \in 1..Len(s) |-> Match(i)], 1)
    IN  IF span = <<>> THEN <<>> ELSE <<span[1], RunEnd(s, span[1], Digit)>>

_parse_rest_constraint(t) ==
    LET day_match == NumberOfUnitBetween(<<"d","a","y">>, t)
        hour_match == NumberOfUnitBetween(<<"h","o","u","r">>, t)
    IN  << <<"min_hours", Optional(hour_match # <<>>, PyInt(int(group(t, hour_match))))>>,
           <<"min_days", Optional(day_match # <<>>, PyInt(int(group(t, day_match))))>>,
           <<"between_events", PyBool(TRUE)>> >>

_parse_preference_constraint(t) ==
    << <<"preferred_times", PyList(<<>>)>>,
       <<"preferred_days", PyList(<<>>)>>,
       <<"weight", PyFloat(50)>> >>

---------------------------------------------------------------------------
(* The condition extractors.                                               *)

Condition(operator, value) == [operator |-> operator, value |-> value]

\* the chain written as independent ifs: every cue that occurs adds a condition
TemporalConditionsEveryCue(t) ==
    (IF Contains(<<"c","a","n","n","o","t">>, t) \/ Contains(<<"n","o","t">>, t)
     THEN <<Condition("not_equals", "specified_time")>> ELSE <<>>)
    \o (IF Contains(<<"m","u","s","t">>, t) \/ Contains(<<"o","n","l","y">>, t)
        THEN <<Condition("equals", "specified_time")>> ELSE <<>>)
    \o (IF Contains(<<"b","e","f","o","r","e">>, t)
        THEN <<Condition("less_than", "specified_time")>> ELSE <<>>)
    \o (IF Contains(<<"a","f","t","e","r">>, t)
        THEN <<Condition("greater_than", "specified_time")>> ELSE <<>>)

\* the chain with the before / after cues tested ahead of the others
TemporalConditionsBeforeFirst(t) ==
    IF Contains(<<"b","e","f","o","r","e">>, t)
    THEN <<Condition("less_than", "specified_time")>>
    ELSE IF Contains(<<"a","f","t","e","r">>, t)
    THEN <<Condition("greater_than", "specified_time")>>
    ELSE IF Contains(<<"c","a","n","n","o","t">>, t) \/ Contains(<<"n","o","t">>, t)
    THEN <<Condition("not_equals", "specified_time")>>
    ELSE IF Contains(<<"m","u","s","t">>, t) \/ Contains(<<"o","n","l","y">>, t)
    THEN <<Condition("equals", "specified_time")>>
    ELSE <<>>

_extract_temporal_conditions(t) ==
    IF Contains(<<"c","a","n","n","o","t">>, t) \/ Contains(<<"n","o","t">>, t)
    THEN <<Condition("not_equals", "specified_time")>>
    ELSE IF Contains(<<"m","u","s","t">>, t) \/ Contains(<<"o","n","l","y">>, t)
    THEN <<Condition("equals", "specified_time")>>
    ELSE IF Contains(<<"b","e","f","o","r","e">>, t)
    THEN <<Condition("less_than", "specified_time")>>
    ELSE IF Contains(<<"a","f","t","e","r">>, t)
    THEN <<Condition("greater_than", "specified_time")>>
    ELSE <<>>

_extract_capacity_conditions(t) ==
    IF Contains(<<"n","o"," ","m","o","r","e"," ","t","h","a","n">>, t) \/ Contains(<<"m","a","x","i","m","u","m">>, t)
    THEN <<Condition("less_than_or_equal", "max_count")>>
    ELSE IF Contains(<<"a","t"," ","l","e","a","s","t">>, t) \/ Contains(<<"m","i","n","i","m","u","m">>, t)
    THEN <<Condition("greater_than_or_equal", "min_count")>>
    ELSE <<>>

_extract_location_conditions(t) ==
    IF Contains(<<"m","u","s","t">>, t) /\ Contains(<<"h","o","m","e">>, t)
    THEN <<Condition("equals", "home_venue")>>
    ELSE IF Contains(<<"c","a","n","n","o","t">>, t)
    THEN <<Condition("not_equals", "specified_venue")>>
    ELSE <<>>

_extract_rest_conditions(t) ==
    IF Contains(<<"a","t"," ","l","e","a","s","t">>, t) \/ Contains(<<"m","i","n","i","m","u","m">>, t)
    THEN <<Condition("greater_than_or_equal", "min_rest_period")>>
    ELSE <<>>

_extract_preference_conditions(t) ==
    IF Contains(<<"p","r","e","f","e","r">>, t) \/ Contains(<<"l","i","k","e">>, t)
    THEN <<Condition("prefer", "specified_option")>>
    ELSE <<>>

---------------------------------------------------------------------------
(* _calculate_confidence and _parse_constraint                             *)

Max(a, b) == IF a >= b THEN a ELSE b

\* the builtin min
Min(a, b) == IF a <= b THEN a ELSE b

Categories == {"temporal", "capacity", "location", "rest", "preference"}

\* parsed_result.get(parsed_result["type"], {})
CategoryData(parsed_result) ==
    CASE parsed_result.type = "temporal" -> parsed_result.temporal
      [] parsed_result.type = "capacity" -> parsed_result.capacity
      [] parsed_result.type = "location" -> parsed_result.location
      [] parsed_result.type = "rest" -> parsed_result.rest
      [] parsed_result.type = "preference" -> parsed_result.preference
      [] OTHER -> EmptyDict

\* constraint_data and any(v is not None and v != [] for v in constraint_data.values())
Populated(constraint_data) ==
    /\ constraint_data # EmptyDict
    /\ \E k \in 1..Len(constraint_data) :
           ~IsNone(constraint_data[k][2]) /\ ~IsEmptyList(constraint_data[k][2])

\* the score with no term for the entities found
ConfidenceIgnoresEntities(t, parsed_result) ==
    LET condition_count == Len(parsed_result.conditions)
        score1 == IF parsed_result.type # "unknown" THEN 30 ELSE 0
        score3 == IF condition_count > 0 THEN score1 + Min(20, condition_count * 10)
                  ELSE score1
        score4 == IF Populated(CategoryData(parsed_result)) THEN score3 + 20 ELSE score3
    IN  Min(100, score4)

_calculate_confidence(t, parsed_result) ==
    LET entity_count == Len(parsed_result.entities)
        condition_count == Len(parsed_result.conditions)
        score1 == IF parsed_result.type # "unknown" THEN 30 ELSE 0
        score2 == IF entity_count > 0 THEN score1 + Min(30, entity_count * 10) ELSE score1
        score3 == IF condition_count > 0 THEN score2 + Min(20, condition_count * 10)
                  ELSE score2
        score4 == IF Populated(CategoryData(parsed_result)) THEN score3 + 20 ELSE score3
    IN  Min(100, score4)

_parse_constraint(t) ==
    LET text_lower == lower(t)
        constraint_type == _classify_constraint_type(text_lower)
        is(category) == constraint_type = category
        result ==
            [type |-> constraint_type,
             entities |-> _extract_entities(t),
             conditions |->
                 CASE is("temporal") -> _extract_temporal_conditions(text_lower)
                   [] is("capacity") -> _extract_capacity_conditions(text_lower)
                   [] is("location") -> _extract_location_conditions(text_lower)
                   [] is("rest") -> _extract_rest_conditions(text_lower)
                   [] is("preference") -> _extract_preference_conditions(text_lower)
                   [] OTHER -> <<>>,
             confidence |-> 0,
             temporal |->
                 IF is("temporal") THEN _parse_temporal_constraint(text_lower) ELSE EmptyDict,
             capacity |->
                 IF is("capacity") THEN _parse_capacity_constraint(text_lower) ELSE EmptyDict,
             location |->
                 IF is("location") THEN _parse_location_constraint(text_lower) ELSE EmptyDict,
             preference |->
                 IF is("preference") THEN _parse_preference_constraint(text_lower)
                 ELSE EmptyDict,
             rest |-> IF is("rest") THEN _parse_rest_constraint(text_lower) ELSE EmptyDict]
    IN  [result EXCEPT !.confidence = _calculate_confidence(t, result)]

---------------------------------------------------------------------------
(* Inputs of the direct calls.                                             *)

\* the most fragments joined into one text
MaxFrags == 2
\* the most entities and conditions of a parsed_result given to _calculate_confidence
MaxEntities == 4
MaxConditions == 3
\* the longest whitespace-only text posted
MaxBlank == 2

Scenario1 == <<"T","e","a","m"," ","A"," ","c","a","n","n","o","t"," ","p","l","a","y"," ","b","e","f","o","r","e"," ","6",":","0","0"," ","P","M"," ","o","n"," ","F","r","i","d","a","y","s">>
Scenario2 == <<"N","o"," ","m","o","r","e"," ","t","h","a","n"," ","3"," ","g","a","m","e","s"," ","p","e","r"," ","w","e","e","k">>
Scenario3 == <<"T","e","a","m","s"," ","n","e","e","d"," ","a","t"," ","l","e","a","s","t"," ","2"," ","d","a","y","s"," ","b","e","t","w","e","e","n"," ","m","a","t","c","h","e","s">>
Scenario5 == <<"a","s","d","k","j","a","s","d"," ","q","w","e","o","i","q","w","e">>

ScenarioTexts == {Scenario1, Scenario2, Scenario3, Scenario5}

Fragments ==
    { <<"T","e","a","m","s"," ","n","e","e","d"," ","a","t"," ","l","e","a","s","t"," ","2">>, <<"d","a","y","s"," ","b","e","t","w","e","e","n"," ","m","a","t","c","h","e","s">>, <<"T","e","a","m"," ","A"," ","c","a","n","n","o","t"," ","p","l","a","y">>,
      <<"b","e","f","o","r","e"," ","6",":","0","0"," ","P","M">>, <<"o","n"," ","F","r","i","d","a","y","s"," ","o","n","l","y">>, <<"N","o"," ","m","o","r","e"," ","t","h","a","n"," ","3"," ","g","a","m","e","s">>,
      <<"p","e","r"," ","w","e","e","k">>, <<"m","a","x","i","m","u","m"," ","5"," ","p","e","r"," ","d","a","y">>, <<"a","t"," ","m","o","s","t"," ","4"," ","p","e","r"," ","h","o","u","r">>,
      <<"7"," ","o","r"," ","f","e","w","e","r"," ","8"," ","o","r"," ","m","o","r","e">>, <<"m","i","n","i","m","u","m"," ","1">>, <<"Z","e","b","r","a","s"," ","m","u","s","t"," ","p","l","a","y"," ","a","t"," ","h","o","m","e">>,
      <<"F","i","e","l","d"," ","2">>, <<"L","i","o","n","s"," ","p","r","e","f","e","r">>, <<"a","s","d","k","j","a","s","d"," ","q","w","e","o","i","q","w","e">>, <<"Z","e","b","r","a","s"," ","4","2">>,
      <<"a","f","t","e","r"," ","1","0","a","m">>, <<"r","e","s","t">>, <<"9"," ","h","o","u","r","s"," ","b","e","t","w","e","e","n">> }

Texts ==
    ScenarioTexts
    \cup UNION { { Join(p) : p \in [1..n -> Fragments] } : n \in 0..MaxFrags }

SomeEntity == [type |-> "number", value |-> 1, confidence |-> 85]
SomeCondition == Condition("equals", "specified_time")

FieldValues ==
    { PyNone, PyList(<<>>), PyList(<< <<"F","r","i","d","a","y">> >>), PyInt(0), PyBool(FALSE), PyStr("day") }

\* category dicts of up to two fields
CategoryDicts ==
    {EmptyDict}
    \cup { << <<"a", v>> >> : v \in FieldValues }
    \cup { << <<"a", v>>, <<"b", w>> >> : v \in FieldValues, w \in FieldValues }

ParsedResults ==
    { [type |-> type,
       entities |-> [k \in 1..n |-> SomeEntity],
       conditions |-> [k \in 1..c |-> SomeCondition],
       confidence |-> 0,
       temporal |-> IF type = "temporal" THEN data ELSE EmptyDict,
       capacity |-> IF type = "capacity" THEN data ELSE EmptyDict,
       location |-> IF type = "location" THEN data ELSE EmptyDict,
       preference |-> IF type = "preference" THEN data ELSE EmptyDict,
       rest |-> IF type = "rest" THEN data ELSE EmptyDict] :
      type \in Categories \cup {"unknown"}, n \in 0..MaxEntities,
      c \in 0..MaxConditions, data \in CategoryDicts }

---------------------------------------------------------------------------
(* Direct calls of the parser's methods: one call on one input.            *)

NoCall == [fn |-> "none", ret |-> <<>>]
NoResult == [type |-> "none"]
NoRequest == [method |-> "none"]

FnInit ==
    /\ \/ text \in Texts /\ scored = NoResult
       \/ text = <<>> /\ scored \in ParsedResults
    /\ call = NoCall
    /\ request = NoRequest
    /\ handled = FALSE
    /\ responses = <<>>
    /\ parseCalls = 0

Call(fn, ret) ==
    /\ call = NoCall
    /\ call' = [fn |-> fn, ret |-> ret]
    /\ UNCHANGED <<text, scored, request, handled, responses, parseCalls>>

CallParseConstraint ==
    /\ scored = NoResult
    /\ Call("_parse_constraint", _parse_constraint(text))

CallClassify ==
    /\ scored = NoResult
    /\ Call("_classify_constraint_type", _classify_constraint_type(lower(text)))

CallTemporalConditions ==
    /\ scored = NoResult
    /\ Call("_extract_temporal_conditions", _extract_temporal_conditions(lower(text)))

CallParseCapacity ==
    /\ scored = NoResult
    /\ Call("_parse_capacity_constraint", _parse_capacity_constraint(lower(text)))

CallConfidence ==
    /\ scored # NoResult
    /\ Call("_calculate_confidence", _calculate_confidence(text, scored))

FnNext ==
    \/ CallParseConstraint
    \/ CallClassify
    \/ CallTemporalConditions
    \/ CallParseCapacity
    \/ CallConfidence

FnSpec == FnInit /\ [][FnNext]_vars

---------------------------------------------------------------------------
(* The HTTP handler.  A handler object serves the request of its           *)
(* connection: Init draws the request, do_POST or do_OPTIONS handles it.   *)
(* `responses` lists what the handler writes: <<"status", code>>,          *)
(* <<"header", name, value>>, <<"end_headers">>, <<"body", payload>>.      *)

\* whitespace-only texts of up to MaxBlank characters
BlankTexts == UNION { [1..n -> Space] : n \in 0..MaxBlank }

Pads == {<<>>} \cup { <<c>> : c \in Space }

\* the texts posted: blank ones, and the scenarios and fragments with
\* whitespace around them
PostedTexts ==
    BlankTexts
    \cup { l \o t \o r : l \in Pads, r \in Pads, t \in ScenarioTexts \cup Fragments }

Absent == <<"absent">>

\* the request body: no Content-Length header to read it by, bytes that are
\* not JSON, JSON that is not an object, or an object whose "text" is
\* absent, null, a list, or a string
Bodies ==
    { [kind |-> kind, text |-> Absent] :
          kind \in {"no_content_length", "invalid_json", "not_object", "object"} }
    \cup { [kind |-> "object", text |-> v] :
               v \in {PyNone, PyList(<<>>)} \cup { PyStr(t) : t \in PostedTexts } }

Requests ==
    { [method |-> "POST", body |-> b] : b \in Bodies }
    \cup { [method |-> "OPTIONS", body |-> [kind |-> "no_content_length", text |-> Absent]] }

_send_cors_headers ==
    << <<"header", "Access-Control-Allow-Origin", "*">>,
       <<"header", "Access-Control-Allow-Methods", "POST, OPTIONS">>,
       <<"header", "Access-Control-Allow-Headers", "Content-Type">> >>

_send_response(status_code, data) ==
    << <<"status", status_code>> >>
    \o _send_cors_headers
    \o << <<"header", "Content-type", "application/json">>,
          <<"end_headers">>,
          <<"body", data>> >>

\* the message of the 500 response ends with str(e), which is left out
_send_error(status_code, message) == _send_response(status_code, [error |-> message])

Init ==
    /\ request \in Requests
    /\ handled = FALSE
    /\ responses = <<>>
    /\ parseCalls = 0
    /\ text = <<>>
    /\ scored = NoResult
    /\ call = NoCall

\* data.get('text', '') of a JSON object
GetText(body) == IF body.text = Absent THEN PyStr(<<>>) ELSE body.text

do_POST ==
    /\ request.method = "POST"
    /\ ~handled
    /\ handled' = TRUE
    /\ LET body == request.body
           value == GetText(body)
           constraint_text == strip(value[2])
       IN  CASE body.kind = "invalid_json" ->
                    \* json.JSONDecodeError
                    /\ responses' = responses \o _send_error(400, "Invalid JSON")
                    /\ parseCalls' = parseCalls
             [] body.kind \in {"no_content_length", "not_object"} \/ value[1] # "str" ->
                    \* TypeError of int(None), AttributeError of .get or .strip
                    /\ responses' = responses \o _send_error(500, "Internal server error: ")
                    /\ parseCalls' = parseCalls
             [] OTHER ->
                    IF constraint_text = <<>>
                    THEN /\ responses' = responses
                                \o _send_error(400, "No constraint text provided")
                         /\ parseCalls' = parseCalls
                    ELSE /\ responses' = responses
                                \o _send_response(200, _parse_constraint(constraint_text))
                         /\ parseCalls' = parseCalls + 1
    /\ UNCHANGED <<text, scored, call, request>>

do_OPTIONS ==
    /\ request.method = "OPTIONS"
    /\ ~handled
    /\ handled' = TRUE
    /\ responses' = responses \o _send_cors_headers \o << <<"end_headers">> >>
    /\ UNCHANGED <<text, scored, call, request, parseCalls>>

Next == do_POST \/ do_OPTIONS

Spec == Init /\ [][Next]_vars

---------------------------------------------------------------------------
(* The claims.                                                             *)

ParseReturned == call.fn = "_parse_constraint"

Operators(conditions) == [k \in 1..Len(conditions) |-> conditions[k].operator]

AllKeywords ==
    temporal_keywords \o capacity_keywords \o location_keywords
    \o rest_keywords \o preference_keywords

\* no keyword of the five sets occurs in the lower-cased text
NoKeyword(t) == \A k \in 1..Len(AllKeywords) : ~Contains(AllKeywords[k], lower(t))

\* min(cap, 0.1 * count), in hundredths
Term(count, cap) == IF 10 * count >= cap THEN cap ELSE 10 * count

Slot(result, category) ==
    CASE category = "temporal" -> result.temporal
      [] category = "capacity" -> result.capacity
      [] category = "location" -> result.location
      [] category = "rest" -> result.rest
      [] category = "preference" -> result.preference

\* C1: _parse_constraint("Teams need at least 2 days between matches")
\* returns type rest, rest.min_days = 2 and the single condition
\* greater_than_or_equal / min_rest_period.
C1_Scenario3IsRest ==
    (ParseReturned /\ text = Scenario3) =>
        /\ call.ret.type = "rest"
        /\ Item(call.ret.rest, "min_days") = PyInt(2)
        /\ call.ret.conditions = <<Condition("greater_than_or_equal", "min_rest_period")>>

\* What the code returns for that text: "am" (in "teams") and "day" give
\* temporal 2, "at least" and "matches" give capacity 2, "between" and
\* "days between" give rest 2, and the first of the three wins; no cue of
\* the temporal chain occurs, rest stays {}.
Scenario3IsTemporal ==
    (ParseReturned /\ text = Scenario3) =>
        /\ scores(lower(text)) = << <<"temporal", 2>>, <<"capacity", 2>>, <<"location", 0>>,
                                    <<"rest", 2>>, <<"preference", 0>> >>
        /\ call.ret.type = "temporal"
        /\ call.ret.rest = EmptyDict
        /\ call.ret.conditions = <<>>

\* C2 as stated: a text in which no keyword occurs gets type unknown and
\* confidence 0, whatever entities are found in it.
C2_GibberishConfidenceZero ==
    (ParseReturned /\ NoKeyword(text)) =>
        call.ret.type = "unknown" /\ call.ret.confidence = 0

\* C2 as amended: a text in which no keyword occurs gets type unknown, no
\* condition, and confidence min(0.3, 0.1 * number of entities found): 0
\* exactly when the entity scans find nothing.
C2_GibberishConfidenceOfEntities ==
    (ParseReturned /\ NoKeyword(text)) =>
        /\ call.ret.type = "unknown"
        /\ call.ret.conditions = <<>>
        /\ call.ret.confidence = Term(Len(call.ret.entities), 30)
        /\ call.ret.confidence = 0 <=> call.ret.entities = <<>>

C2_GibberishWithEntities ==
    /\ ParseReturned
    /\ NoKeyword(text)
    /\ Len(call.ret.entities) > 3
    /\ call.ret.confidence = 30

\* C3: the confidence of every result of _parse_constraint, and the value
\* _calculate_confidence returns for every type, number of entities, number
\* of conditions and category dict, is between 0 and 1.
C3_ConfidenceInUnitInterval ==
    /\ ParseReturned => call.ret.confidence \in 0..100
    /\ call.fn = "_calculate_confidence" => call.ret \in 0..100

C3_FullScore ==
    /\ call.fn = "_calculate_confidence"
    /\ Len(scored.entities) > 3
    /\ Len(scored.conditions) > 2
    /\ call.ret = 100

CategoryOrder == <<"temporal", "capacity", "location", "rest", "preference">>

\* the number of keywords of each category, in that order, that occur in
\* the lower-cased text
Counts(t) ==
    LET l == lower(t)
    IN  << KeywordCount(temporal_keywords, l), KeywordCount(capacity_keywords, l),
           KeywordCount(location_keywords, l), KeywordCount(rest_keywords, l),
           KeywordCount(preference_keywords, l) >>

\* C4: _classify_constraint_type returns the category with the most
\* keywords in the lower-cased text, the first such category in the order
\* temporal, capacity, location, rest, preference, and unknown when no
\* keyword occurs.
C4_FirstLargestCount ==
    call.fn = "_classify_constraint_type" =>
        LET count == Counts(text)
        IN  IF \A k \in 1..5 : count[k] = 0
            THEN call.ret = "unknown"
            ELSE \E k \in 1..5 :
                     /\ call.ret = CategoryOrder[k]
                     /\ \A j \in 1..5 : count[j] <= count[k]
                     /\ \A j \in 1..(k - 1) : count[j] < count[k]

C4_TieGoesToEarlier ==
    /\ call.fn = "_classify_constraint_type"
    /\ call.ret = "capacity"
    /\ Counts(text)[2] > 0
    /\ Counts(text)[4] = Counts(text)[2]

\* C5: in every result of _parse_constraint the slot named by type is the
\* only one of the five that differs from the initial {}; when type is
\* unknown none differs and conditions is empty.
C5_OnlyTypedSlotSet ==
    ParseReturned =>
        /\ \A c \in Categories : Slot(call.ret, c) # EmptyDict <=> c = call.ret.type
        /\ call.ret.type = "unknown" => call.ret.conditions = <<>>

C5_LocationSlotSet ==
    /\ ParseReturned
    /\ call.ret.type = "location"
    /\ call.ret.location # EmptyDict
    /\ \A c \in Categories \ {"location"} : Slot(call.ret, c) = EmptyDict

StatusesSent ==
    LET lines == SelectSeq(responses, LAMBDA w : w[1] = "status")
    IN  [k \in 1..Len(lines) |-> lines[k][2]]

BodiesSent == Len(SelectSeq(responses, LAMBDA w : w[1] = "body"))

\* the "text" of a JSON object is missing, empty or only whitespace
BlankText(body) ==
    /\ body.kind = "object"
    /\ \/ body.text = Absent
       \/ /\ body.text[1] = "str"
          /\ \A i \in 1..Len(body.text[2]) : body.text[2][i] \in Space

\* C6: for a JSON object whose text is missing, empty or only whitespace,
\* do_POST sends exactly one response, with status 400, and does not call
\* _parse_constraint; it calls _parse_constraint, once, and sends 200 only
\* for a text that is not blank.
C6_BlankTextRejected ==
    (handled /\ request.method = "POST") =>
        /\ BlankText(request.body) =>
               StatusesSent = <<400>> /\ BodiesSent = 1 /\ parseCalls = 0
        /\ (parseCalls > 0 \/ \E k \in 1..Len(StatusesSent) : StatusesSent[k] = 200) =>
               /\ request.body.kind = "object"
               /\ request.body.text[1] = "str"
               /\ ~BlankText(request.body)
               /\ parseCalls = 1
               /\ StatusesSent = <<200>>

C6_WhitespaceRejected ==
    /\ handled
    /\ request.method = "POST"
    /\ BlankText(request.body)
    /\ request.body.text # Absent
    /\ Len(request.body.text[2]) > 0
    /\ StatusesSent = <<400>>
    /\ parseCalls = 0

\* C7: _extract_temporal_conditions returns at most one condition, by the
\* first cue that occurs: cannot / not, then must / only, then before, then
\* after.
C7_FirstCueWins ==
    call.fn = "_extract_temporal_conditions" =>
        LET has(word) == Contains(word, lower(text))
        IN  /\ Len(call.ret) <= 1
            /\ Operators(call.ret) =
                   IF has(<<"c","a","n","n","o","t">>) \/ has(<<"n","o","t">>) THEN <<"not_equals">>
                   ELSE IF has(<<"m","u","s","t">>) \/ has(<<"o","n","l","y">>) THEN <<"equals">>
                   ELSE IF has(<<"b","e","f","o","r","e">>) THEN <<"less_than">>
                   ELSE IF has(<<"a","f","t","e","r">>) THEN <<"greater_than">>
                   ELSE <<>>

C7_CannotBeforeIsNotEquals ==
    /\ call.fn = "_extract_temporal_conditions"
    /\ Contains(<<"c","a","n","n","o","t">>, lower(text))
    /\ Contains(<<"b","e","f","o","r","e">>, lower(text))
    /\ Operators(call.ret) = <<"not_equals">>

CountOfSpan(t, span) == PyInt(int(group(t, span)))

\* C8: _parse_capacity_constraint takes max_count from the first of the
\* patterns "no more than N", "maximum N", "at most N", "N or fewer" that
\* matches anywhere in the text, min_count from the first of "at least N",
\* "minimum N", "N or more", and per_period from "per day", else
\* "per week", else "per hour", else leaves it None.
C8_PatternOrderDecides ==
    call.fn = "_parse_capacity_constraint" =>
        \A t \in {lower(text)} :
        \A max \in {max_patterns(t)}, min \in {min_patterns(t)} :
            /\ Item(call.ret, "max_count") =
                   IF max[1] # <<>> THEN CountOfSpan(t, max[1])
                   ELSE IF max[2] # <<>> THEN CountOfSpan(t, max[2])
                   ELSE IF max[3] # <<>> THEN CountOfSpan(t, max[3])
                   ELSE IF max[4] # <<>> THEN CountOfSpan(t, max[4])
                   ELSE PyNone
            /\ Item(call.ret, "min_count") =
                   IF min[1] # <<>> THEN CountOfSpan(t, min[1])
                   ELSE IF min[2] # <<>> THEN CountOfSpan(t, min[2])
                   ELSE IF min[3] # <<>> THEN CountOfSpan(t, min[3])
                   ELSE PyNone
            /\ Item(call.ret, "per_period") =
                   IF Contains(<<"p","e","r"," ","d","a","y">>, t) THEN PyStr("day")
                   ELSE IF Contains(<<"p","e","r"," ","w","e","e","k">>, t) THEN PyStr("week")
                   ELSE IF Contains(<<"p","e","r"," ","h","o","u","r">>, t) THEN PyStr("hour")
                   ELSE PyNone

\* "maximum N" stands before "no more than M" in the text, and M is taken
C8_LaterInTextEarlierPattern ==
    /\ call.fn = "_parse_capacity_constraint"
    /\ \E t \in {lower(text)} :
       \E max \in {max_patterns(t)} :
           /\ max[1] # <<>>
           /\ max[2] # <<>>
           /\ max[2][1] < max[1][1]
           /\ CountOfSpan(t, max[1]) # CountOfSpan(t, max[2])
           /\ Item(call.ret, "max_count") = CountOfSpan(t, max[1])

\* C9: every result of _parse_constraint has at most one condition, and
\* its confidence is at most 0.9.
C9_OneConditionAtMost ==
    ParseReturned =>
        Len(call.ret.conditions) <= 1 /\ call.ret.confidence <= 90

C9_ConfidenceNineTenths ==
    /\ ParseReturned
    /\ Len(call.ret.conditions) = 1
    /\ call.ret.confidence = 90

\* C10: the 0.2 of the populated-field term is in the confidence of every
\* rest and every preference result, which is therefore at least 0.5, and
\* in that of no location and no unknown result; a location result has
\* confidence at most 0.7.
C10_FieldTermByCategory ==
    ParseReturned =>
        LET r == call.ret
            others == Term(Len(r.entities), 30) + Term(Len(r.conditions), 20)
        IN  /\ r.type \in {"rest", "preference"} =>
                   r.confidence = 30 + others + 20 /\ r.confidence >= 50
            /\ r.type = "location" => r.confidence = 30 + others /\ r.confidence <= 70
            /\ r.type = "unknown" => r.confidence = others

C10_RestWithNothingExtracted ==
    /\ ParseReturned
    /\ call.ret.type = "rest"
    /\ Item(call.ret.rest, "min_days") = PyNone
    /\ Item(call.ret.rest, "min_hours") = PyNone
    /\ call.ret.entities = <<>>
    /\ call.ret.conditions = <<>>
    /\ call.ret.confidence = 50

====
